---- MODULE Spec2Model ----
(***************************************************************************)
(* The stream wrappers of waterbutler/core/stream_wrappers.py as a state   *)
(* machine: one stream object under test, a consumer that calls read(n)    *)
(* (and size()) on it, and the history of what those calls produced.       *)
(*                                                                         *)
(* A stream object is a record tagged by `kind`; a call is a pure operator *)
(* from the object and its arguments to the outcome of the call            *)
(* (a returned chunk, a raised exception, or a loop that never exits)      *)
(* together with the object as the call leaves it.                         *)
(***************************************************************************)
EXTENDS Integers, Sequences, FiniteSets, TLC

\* ---------------------------------------------------------------- bounds
MaxLen == 3
MaxRead == 3
MaxMembers == 2
MaxCutoff == 3
MaxCalls == 4

\* Byte values the contents are drawn from ('e' and 's').
Alphabet == {101, 115}

\* b'sleepy', the content of the tests in tests/core/stream_wrappers.
Sleepy == <<115, 108, 101, 101, 112, 121>>

\* Sizes a consumer passes to read(): -1 is the default "everything".
ReadSizes == {-1} \cup (0..MaxRead)

RECURSIVE SeqsUpTo(_)
SeqsUpTo(k) ==
    IF k = 0 THEN {<<>>}
    ELSE LET shorter == SeqsUpTo(k - 1)
         IN shorter \cup {Append(s, b) : s \in {t \in shorter : Len(t) = k - 1}, b \in Alphabet}

Contents == SeqsUpTo(MaxLen) \cup {Sleepy}

\* ------------------------------------------------------- Python builtins
Min(a, b) == IF a < b THEN a ELSE b

Max(a, b) == IF a > b THEN a ELSE b

\* A slice bound as Python clamps it: negative bounds count from the end.
PyIndex(i, len) == IF i < 0 THEN Max(i + len, 0) ELSE Min(i, len)

\* seq[lo:hi]
PySlice(seq, lo, hi) ==
    LET l == PyIndex(lo, Len(seq))
        h == PyIndex(hi, Len(seq))
    IN IF l < h THEN SubSeq(seq, l + 1, h) ELSE <<>>

\* seq[lo:]
PyFrom(seq, lo) == PySlice(seq, lo, Len(seq))

\* b''.join(seqs)
RECURSIVE ConcatAll(_)
ConcatAll(seqs) == IF seqs = <<>> THEN <<>> ELSE Head(seqs) \o ConcatAll(Tail(seqs))

\* The value None.
None == [kind |-> "None"]

\* ------------------------------------------------------ outcomes of calls
Returned(s, chunk) == [stream |-> s, chunk |-> chunk, outcome |-> "return"]

Raised(s, exc) == [stream |-> s, chunk |-> <<>>, outcome |-> exc]

\* The call never comes back: its loop repeats one and the same state.
Hung(s) == [stream |-> s, chunk |-> <<>>, outcome |-> "hang"]

\* ---------------------------------------------------- SimpleStreamWrapper
\* Names that super() resolves inside a subclass of SimpleStreamWrapper:
\* the class attributes of the base classes, never the instance attributes.
SimpleStreamWrapperAttrs == {"__init__", "__aiter__", "__anext__", "size", "at_eof", "read"}

\* SimpleStreamWrapper.at_eof
SimpleStreamWrapper_at_eof(s) == s.at_eof

\* ---------------------------------------------------- StringStreamWrapper
StringStreamWrapper(data) ==
    [kind |-> "String", size |-> Len(data), data |-> data, at_eof |-> FALSE]

StringStreamWrapper_read(s, size) ==
    LET n == IF size = -1 THEN s.size ELSE size
        chunk == PySlice(s.data, 0, n - 1)
        data == PyFrom(s.data, n)
    IN Returned([s EXCEPT !.data = data,
                          !.at_eof = IF Len(data) = 0 THEN TRUE ELSE @],
                chunk)

\* ----------------------------------------------------- EmptyStreamWrapper
EmptyStreamWrapper == [kind |-> "Empty", at_eof |-> FALSE]

EmptyStreamWrapper_read(s, n) == Returned([s EXCEPT !.at_eof = TRUE], <<>>)

\* ------------------------------------------------------- HashStreamWriter
\* The digest sink attached by the tee: its running state is the byte
\* sequence written so far, its hexdigest a function of that sequence.
WriterNames == {"md5", "sha256"}

HashStreamWriter == [fed |-> <<>>]

HashStreamWriter_write(w, data) == [w EXCEPT !.fed = @ \o data]

DigestModulus == 65521

RECURSIVE DigestOf(_, _)
DigestOf(h, bytes) ==
    IF bytes = <<>> THEN h
    ELSE DigestOf((h * 31 + Head(bytes)) % DigestModulus, Tail(bytes))

\* The digest of a byte sequence under the named algorithm.
Digest(name, bytes) ==
    DigestOf(IF name = "md5" THEN 5 ELSE IF name = "sha1" THEN 1 ELSE 256, bytes)

hexdigest(name, w) == Digest(name, w.fed)

\* ----------------------------------------------------------------- base64
\* The ASCII code of the i-th character of the base64 alphabet.
B64Char(i) ==
    IF i < 26 THEN 65 + i
    ELSE IF i < 52 THEN 97 + (i - 26)
    ELSE IF i < 62 THEN 48 + (i - 52)
    ELSE IF i = 62 THEN 43 ELSE 47

\* base64.b64encode: three bytes become four characters, '=' (61) pads.
RECURSIVE b64encode(_)
b64encode(s) ==
    IF Len(s) = 0 THEN <<>>
    ELSE IF Len(s) = 1 THEN
        <<B64Char(s[1] \div 4), B64Char((s[1] % 4) * 16), 61, 61>>
    ELSE IF Len(s) = 2 THEN
        <<B64Char(s[1] \div 4), B64Char((s[1] % 4) * 16 + (s[2] \div 16)),
          B64Char((s[2] % 16) * 4), 61>>
    ELSE
        <<B64Char(s[1] \div 4), B64Char((s[1] % 4) * 16 + (s[2] \div 16)),
          B64Char((s[2] % 16) * 4 + (s[3] \div 64)), B64Char(s[3] % 64)>>
        \o b64encode(SubSeq(s, 4, Len(s)))

\* ------------------------------------------------- size, at_eof, dispatch
\* The kinds whose `size` is a property (an int), not a method.
SizeIsProperty(s) == s.kind \in {"String", "Empty", "Multi", "Cutoff", "Base64"}

\* The value of the `size` property.
Size(s) == IF s.kind = "Empty" THEN 0 ELSE s.size

\* `None` as the value of a size: no length is known (sizes are never negative).
SizeNone == -1

RECURSIVE AtEof(_)
RECURSIVE Read(_, _)
RECURSIVE MultiStreamWrapper_read_loop(_, _, _)
RECURSIVE CutoffStream_read_loop(_, _, _)

\* at_eof() as the wrapped stream's alone, the carry buffer not looked at.
Base64EncodeStream_at_eof_ignoringExtra(s) == AtEof(s.stream)

\* Base64EncodeStream.at_eof
Base64EncodeStream_at_eof(s) == Len(s.extra) = 0 /\ AtEof(s.stream)

\* at_eof() of any stream object.
AtEof(s) ==
    IF s.kind = "Base64" THEN Base64EncodeStream_at_eof(s)
    ELSE SimpleStreamWrapper_at_eof(s)

\* ---------------------------------------------------- DigestStreamWrapper
DigestStreamWrapper(readable, writers) ==
    [kind |-> "Digest", readable |-> readable, writers |-> writers, at_eof |-> FALSE]

\* size(): calls what `self._readable.size` evaluates to.
DigestStreamWrapper_size(d) ==
    IF SizeIsProperty(d.readable)
    THEN [outcome |-> "TypeError", value |-> 0]
    ELSE [outcome |-> "return", value |-> Size(d.readable)]

\* read(): the wrapped stream is looked up on super().
DigestStreamWrapper_read(d, size) ==
    IF "_readable" \notin SimpleStreamWrapperAttrs
    THEN Raised(d, "AttributeError")
    ELSE LET r == Read(d.readable, size)
             d1 == [d EXCEPT !.readable = r.stream]
         IN IF r.outcome # "return" THEN [r EXCEPT !.stream = d1]
            ELSE Returned([d1 EXCEPT !.writers =
                               [k \in DOMAIN @ |-> HashStreamWriter_write(@[k], r.chunk)]],
                          r.chunk)

\* ----------------------------------------------------- MultiStreamWrapper
RECURSIVE SumSizes(_)
SumSizes(readables) ==
    IF readables = <<>> THEN 0
    ELSE Size(Head(readables)) + SumSizes(Tail(readables))

MultiStreamWrapper_cycle(m) ==
    IF Len(m.readables) > 0
    THEN [m EXCEPT !.current_readable = Head(m.readables), !.readables = Tail(@)]
    ELSE m

MultiStreamWrapper(readables) ==
    MultiStreamWrapper_cycle(
        [kind |-> "Multi", size |-> 0 + SumSizes(readables), readables |-> readables,
         current_readable |-> None, at_eof |-> FALSE])

\* One evaluation of the while condition and, when it holds, of the body.
\* An iteration that changes neither the chunk nor the object repeats.
MultiStreamWrapper_read_loop(m, n, chunk) ==
    IF m.current_readable.kind # "None" /\ (Len(chunk) < n \/ n = -1)
    THEN LET r == Read(m.current_readable, IF n = -1 THEN -1 ELSE n - Len(chunk))
             m1 == [m EXCEPT !.current_readable = r.stream]
         IN IF r.outcome # "return" THEN [r EXCEPT !.stream = m1]
            ELSE LET chunk2 == chunk \o r.chunk
                     m2 == IF AtEof(m1.current_readable)
                           THEN MultiStreamWrapper_cycle(m1) ELSE m1
                 IN IF m2 = m /\ chunk2 = chunk THEN Hung(m2)
                    ELSE MultiStreamWrapper_read_loop(m2, n, chunk2)
    ELSE Returned(m, chunk)

MultiStreamWrapper_read(m, n) == MultiStreamWrapper_read_loop(m, n, <<>>)

\* ----------------------------------------------------------- CutoffStream
\* The attributes an instance of CutoffStream has.
CutoffStreamAttrs ==
    SimpleStreamWrapperAttrs \cup {"_at_eof", "_readable", "_cutoff", "_thus_far", "_size"}

\* CutoffStream.__init__ taking the cutoff itself as the size.
CutoffStream_sizeIsCutoff(readable, cutoff) ==
    [kind |-> "Cutoff", readable |-> readable, cutoff |-> cutoff, thus_far |-> 0,
     size |-> cutoff, at_eof |-> FALSE]

CutoffStream(readable, cutoff) ==
    [kind |-> "Cutoff", readable |-> readable, cutoff |-> cutoff, thus_far |-> 0,
     size |-> Min(cutoff, Size(readable)), at_eof |-> FALSE]

\* One evaluation of `while self.stream and (len(chunk) < n)` and its body.
CutoffStream_read_loop(c, n, chunk) ==
    IF "stream" \notin CutoffStreamAttrs THEN Raised(c, "AttributeError")
    ELSE IF Len(chunk) < n
    THEN LET r == Read(c.readable, n - Len(chunk))
             c1 == [c EXCEPT !.readable = r.stream]
         IN IF r.outcome # "return" THEN [r EXCEPT !.stream = c1]
            ELSE LET c2 == [c1 EXCEPT !.thus_far = @ + Len(r.chunk)]
                 IN IF c2 = c /\ r.chunk = <<>> THEN Hung(c2)
                    ELSE CutoffStream_read_loop(c2, n, chunk \o r.chunk)
    ELSE Returned(c, chunk)

CutoffStream_read(c, n) ==
    IF n < 0
    THEN LET r == Read(c.readable, c.cutoff)
         IN [r EXCEPT !.stream = [c EXCEPT !.readable = r.stream]]
    ELSE CutoffStream_read_loop(c, Min(n, c.cutoff - c.thus_far), <<>>)

\* ----------------------------------------------------- Base64EncodeStream
\* 4 * size / 3 rounded up to a multiple of 4, in units of one third.
Base64EncodeStream_calculate_encoded_size_unpadded(size) == (4 * size) \div 3

Base64EncodeStream_calculate_encoded_size(size) ==
    LET thirds == 4 * size
        padded == IF (thirds % 12) # 0 THEN thirds + (12 - (thirds % 12)) ELSE thirds
    IN padded \div 3

Base64EncodeStream(stream) ==
    [kind |-> "Base64", extra |-> <<>>, stream |-> stream,
     size |-> IF Size(stream) = SizeNone THEN SizeNone
              ELSE Base64EncodeStream_calculate_encoded_size(Size(stream)),
     at_eof |-> FALSE]

Base64EncodeStream_read(s, n) ==
    IF n < 0
    THEN \* super().read is the abstract property: a coroutine object, called
         Raised(s, "TypeError")
    ELSE LET nog == n
             padding == n % 3
             n3 == IF padding # 0 THEN n + (3 - padding) ELSE n
             r == Read(s.stream, n3)
             s1 == [s EXCEPT !.stream = r.stream]
             chunk == s.extra \o b64encode(r.chunk)
         IN IF r.outcome # "return" THEN [r EXCEPT !.stream = s1]
            ELSE IF Len(chunk) <= nog
                 THEN Returned([s1 EXCEPT !.extra = <<>>], chunk)
                 ELSE Returned([s1 EXCEPT !.extra = PyFrom(chunk, nog)],
                               PySlice(chunk, 0, nog))

\* --------------------------------------------------- ResponseStreamReader
\* The network response the reader adapts: the body still to arrive, as the
\* pieces in which the transport will hand it over, the Content-Length
\* header (SizeNone when absent), the number of release() calls received,
\* and whether its content raises once the response has been released.
Response(packets, has_length, closed_raises) ==
    [packets |-> packets,
     content_length |-> IF has_length THEN Len(ConcatAll(packets)) ELSE SizeNone,
     released |-> 0, closed_raises |-> closed_raises]

\* response.content.read(size): everything left when size < 0, nothing when
\* size = 0, else at most size bytes of what has arrived.
ResponseContent_read(packets, size) ==
    IF size < 0 THEN [chunk |-> ConcatAll(packets), packets |-> <<>>]
    ELSE IF size = 0 \/ packets = <<>> THEN [chunk |-> <<>>, packets |-> packets]
    ELSE LET first == Head(packets)
             k == Min(size, Len(first))
         IN [chunk |-> SubSeq(first, 1, k),
             packets |-> IF k = Len(first) THEN Tail(packets)
                         ELSE <<SubSeq(first, k + 1, Len(first))>> \o Tail(packets)]

\* The module that defines the class has a module-level `logger`.
LoggerDefined(module) == module = "http"

\* ResponseStreamReader(response, size): the first statement logs.
ResponseStreamReader(module, response, size) ==
    IF ~LoggerDefined(module)
    THEN [kind |-> "Failed", outcome |-> "NameError", response |-> response,
          at_eof |-> FALSE]
    ELSE [kind |-> "Response", module |-> module, response |-> response,
          size |-> IF response.content_length # SizeNone
                   THEN response.content_length ELSE size,
          at_eof |-> FALSE]

\* ResponseStreamReader.read / ._read: an empty chunk marks the end of the
\* stream and releases the response.
ResponseStreamReader_read(s, size) ==
    IF ~LoggerDefined(s.module) THEN Raised(s, "NameError")
    ELSE IF s.response.released > 0 /\ s.response.closed_raises
    THEN Raised(s, "ClientConnectionError")
    ELSE LET r == ResponseContent_read(s.response.packets, size)
         IN IF r.chunk = <<>>
            THEN Returned([s EXCEPT !.at_eof = TRUE,
                                    !.response.packets = <<>>,
                                    !.response.released = @ + 1], <<>>)
            ELSE Returned([s EXCEPT !.response.packets = r.packets], r.chunk)

\* ------------------------------------------------------------- read(n)
Read(s, n) ==
    CASE s.kind = "String" -> StringStreamWrapper_read(s, n)
      [] s.kind = "Empty"  -> EmptyStreamWrapper_read(s, n)
      [] s.kind = "Digest" -> DigestStreamWrapper_read(s, n)
      [] s.kind = "Multi"  -> MultiStreamWrapper_read(s, n)
      [] s.kind = "Cutoff" -> CutoffStream_read(s, n)
      [] s.kind = "Base64" -> Base64EncodeStream_read(s, n)
      [] s.kind = "Response" -> ResponseStreamReader_read(s, n)

\* ------------------------------------------------------ the objects built
MaxMemberLen == 2

Writers == [k \in WriterNames |-> HashStreamWriter]

\* The streams a MultiStreamWrapper is built from.
Members ==
    {StringStreamWrapper(c) : c \in SeqsUpTo(MaxMemberLen)}
    \cup {EmptyStreamWrapper}
    \cup {Base64EncodeStream(StringStreamWrapper(c)) : c \in SeqsUpTo(MaxMemberLen)}

RECURSIVE MemberLists(_)
MemberLists(k) ==
    IF k = 0 THEN {<<>>}
    ELSE LET shorter == MemberLists(k - 1)
         IN shorter \cup {<<m>> \o l : m \in Members, l \in {t \in shorter : Len(t) = k - 1}}

MaxPackets == 2
MaxPacketLen == 2

RECURSIVE PacketLists(_)
PacketLists(k) ==
    IF k = 0 THEN {<<>>}
    ELSE LET shorter == PacketLists(k - 1)
         IN shorter \cup {<<p>> \o l : p \in SeqsUpTo(MaxPacketLen) \ {<<>>},
                                        l \in {t \in shorter : Len(t) = k - 1}}

\* The network responses a reader is built over.
Responses ==
    {Response(packets, has_length, closed_raises) :
        packets \in PacketLists(MaxPackets), has_length \in BOOLEAN,
        closed_raises \in BOOLEAN}

\* streams.ResponseStreamReader(resp) and stream_wrappers.ResponseStreamReader(resp)
ResponseReaders ==
    {ResponseStreamReader(module, resp, SizeNone) :
        module \in {"http", "stream_wrappers"}, resp \in Responses}

Scenarios ==
    {StringStreamWrapper(c) : c \in Contents}
    \cup {EmptyStreamWrapper}
    \cup {DigestStreamWrapper(StringStreamWrapper(c), Writers) : c \in Contents}
    \cup {MultiStreamWrapper(l) : l \in MemberLists(MaxMembers)}
    \cup {CutoffStream(StringStreamWrapper(c), k) : c \in Contents, k \in 0..MaxCutoff}
    \cup {Base64EncodeStream(StringStreamWrapper(c)) : c \in Contents}
    \cup ResponseReaders
    \cup {Base64EncodeStream(r) : r \in {x \in ResponseReaders : x.kind = "Response"}}

\* The byte sequence a stream object stands for when it is built.
RECURSIVE LogicalContent(_)
RECURSIVE ConcatContents(_)
ConcatContents(l) ==
    IF l = <<>> THEN <<>> ELSE LogicalContent(Head(l)) \o ConcatContents(Tail(l))

LogicalContent(s) ==
    CASE s.kind = "String" -> s.data
      [] s.kind = "Empty"  -> <<>>
      [] s.kind = "None"   -> <<>>
      [] s.kind = "Digest" -> LogicalContent(s.readable)
      [] s.kind = "Multi"  -> LogicalContent(s.current_readable) \o ConcatContents(s.readables)
      [] s.kind = "Cutoff" -> PySlice(LogicalContent(s.readable), 0, s.cutoff)
      [] s.kind = "Base64" -> b64encode(LogicalContent(s.stream))
      [] s.kind = "Response" -> ConcatAll(s.response.packets)
      [] s.kind = "Failed" -> <<>>

\* ------------------------------------------- the storage backend's objects
\* A path on the storage backend: a pending (uuid) name or a complete
\* (sha256) name.
\* One pending name for every upload.
PendingPath_shared(id) == [kind |-> "pending", id |-> 0]

PendingPath(id) == [kind |-> "pending", id |-> id]

CompletePath(sha256) == [kind |-> "complete", id |-> sha256]

\* The backend's answers.
BackendOk(store, value) == [store |-> store, outcome |-> "return", value |-> value]

BackendRaised(store, exc) == [store |-> store, outcome |-> exc, value |-> None]

\* What the backend's upload gets out of the stream it is handed: it reads
\* until a read returns nothing.
RECURSIVE Backend_drain(_, _, _)
Backend_drain(s, data, fuel) ==
    LET r == Read(s, -1)
    IN IF r.outcome # "return" THEN [stream |-> r.stream, data |-> data, outcome |-> r.outcome]
       ELSE IF r.chunk = <<>> THEN [stream |-> r.stream, data |-> data, outcome |-> "return"]
       ELSE IF fuel = 0 THEN [stream |-> r.stream, data |-> data \o r.chunk, outcome |-> "hang"]
       ELSE Backend_drain(r.stream, data \o r.chunk, fuel - 1)

\* provider.upload(stream, path): stores what the stream delivers at path.
\* A failed upload may leave what had arrived as an orphan.
Backend_upload(store, drained, path, fault, orphan) ==
    LET stored == [n \in (DOMAIN store) \cup {path} |->
                      IF n = path THEN drained.data ELSE store[n]]
    IN IF fault THEN BackendRaised(IF orphan THEN stored ELSE store, "UploadError")
       ELSE IF drained.outcome # "return"
       THEN BackendRaised(IF orphan THEN stored ELSE store, drained.outcome)
       ELSE BackendOk(stored, [path |-> path, size |-> Len(drained.data)])

\* provider.metadata(path)
Backend_metadata(store, path, fault) ==
    IF fault THEN BackendRaised(store, "MetadataError500")
    ELSE IF path \notin DOMAIN store THEN BackendRaised(store, "MetadataError404")
    ELSE BackendOk(store, [path |-> path, size |-> Len(store[path])])

\* provider.move(provider, src, dest)
Backend_move(store, src, dest, fault) ==
    IF fault THEN BackendRaised(store, "MoveError")
    ELSE IF src \notin DOMAIN store THEN BackendRaised(store, "NotFoundError")
    ELSE LET moved == [n \in ((DOMAIN store) \ {src}) \cup {dest} |->
                          IF n = dest THEN store[src] ELSE store[n]]
         IN BackendOk(moved, [path |-> dest, size |-> Len(store[src])])

\* provider.delete(path)
Backend_delete(store, path, fault) ==
    IF fault THEN BackendRaised(store, "DeleteError")
    ELSE IF path \notin DOMAIN store THEN BackendRaised(store, "NotFoundError")
    ELSE BackendOk([n \in (DOMAIN store) \ {path} |-> store[n]], None)

\* ---------------------------------- OSFStorageProvider: the upload commit
MaxRuns == 2
MaxUploadLen == 2
MaxDrain == 4

Runs == 1..MaxRuns

\* digest_objs of _send_to_storage_provider
digest_objs == [k \in {"md5", "sha1", "sha256"} |-> HashStreamWriter]

\* An upload that has not been called yet, with the stream it will be given.
NewRun(data) ==
    [pc |-> "idle", content |-> data, stream |-> StringStreamWrapper(data),
     digest_stream |-> None, pending |-> None, complete |-> None,
     metadata |-> None, digests |-> None, raised |-> "none", faulted |-> FALSE,
     after |-> {}, log |-> <<>>, raised_at |-> 0]

Finished(u) == u.pc \in {"done", "raised"}

\* exc is caught and the statement that raised it is run again.
Fail_retried(u, exc) == [u EXCEPT !.raised = exc, !.raised_at = Len(u.log)]

\* exc leaves upload(): the call just logged is the one that raised it.
Fail(u, exc) == [u EXCEPT !.pc = "raised", !.raised = exc, !.raised_at = Len(u.log)]

Logged(u, op, path) == [u EXCEPT !.log = Append(@, [op |-> op, path |-> path])]

\* upload(stream, path) up to the call of provider.upload: the tee and the
\* pending name.  uuid4 names are distinct from run to run.
OSFStorageProvider_upload_begin(u, id, finished) ==
    [u EXCEPT !.pc = "gamma",
              !.digest_stream = DigestStreamWrapper(u.stream, digest_objs),
              !.pending = PendingPath(id),
              !.after = finished]

\* The pending upload with its failure swallowed: the lookup follows anyway.
OSFStorageProvider_upload_pending_unchecked(u, store, fault, orphan) ==
    LET drained == Backend_drain(u.digest_stream, <<>>, MaxDrain)
        res == Backend_upload(store, drained, u.pending, fault, orphan)
        u1 == Logged([u EXCEPT !.digest_stream = drained.stream,
                               !.faulted = @ \/ fault], "upload", u.pending)
    IN [store |-> res.store,
        run |-> IF res.outcome = "return" THEN [u1 EXCEPT !.pc = "delta"]
                ELSE [Fail(u1, res.outcome) EXCEPT !.pc = "delta"]]

\* await provider.upload(digest_stream, remote_pending_path, ...)
OSFStorageProvider_upload_pending(u, store, fault, orphan) ==
    LET drained == Backend_drain(u.digest_stream, <<>>, MaxDrain)
        res == Backend_upload(store, drained, u.pending, fault, orphan)
        u1 == Logged([u EXCEPT !.digest_stream = drained.stream,
                               !.faulted = @ \/ fault], "upload", u.pending)
    IN [store |-> res.store,
        run |-> IF res.outcome = "return" THEN [u1 EXCEPT !.pc = "delta"]
                ELSE Fail(u1, res.outcome)]

\* complete_name = the sha256 hexdigest; provider.metadata(remote_complete_path)
OSFStorageProvider_upload_lookup(u, store, fault) ==
    LET complete == CompletePath(hexdigest("sha256", u.digest_stream.writers["sha256"]))
        res == Backend_metadata(store, complete, fault)
        u1 == Logged([u EXCEPT !.complete = complete, !.faulted = @ \/ fault],
                     "metadata", complete)
    IN [store |-> res.store,
        run |-> IF res.outcome = "return"
                THEN [u1 EXCEPT !.pc = "delete", !.metadata = res.value]
                ELSE IF res.outcome = "MetadataError404" THEN [u1 EXCEPT !.pc = "move"]
                ELSE Fail(u1, res.outcome)]

\* metadata, _ = await provider.move(provider, pending, complete)
OSFStorageProvider_upload_move(u, store, fault) ==
    LET res == Backend_move(store, u.pending, u.complete, fault)
        u1 == Logged([u EXCEPT !.faulted = @ \/ fault], "move", u.pending)
    IN [store |-> res.store,
        run |-> IF res.outcome = "return"
                THEN [u1 EXCEPT !.pc = "zeta", !.metadata = res.value]
                ELSE Fail(u1, res.outcome)]

\* await provider.delete(remote_pending_path)
OSFStorageProvider_upload_delete(u, store, fault) ==
    LET res == Backend_delete(store, u.pending, fault)
        u1 == Logged([u EXCEPT !.faulted = @ \/ fault], "delete", u.pending)
    IN [store |-> res.store,
        run |-> IF res.outcome = "return" THEN [u1 EXCEPT !.pc = "zeta"]
                ELSE Fail(u1, res.outcome)]

\* digests = {key: digest_objs[key].hexdigest}; return metadata, digests
OSFStorageProvider_upload_digests(u, store) ==
    [store |-> store,
     run |-> [u EXCEPT !.pc = "report",
                       !.digests = [k \in DOMAIN u.digest_stream.writers |->
                                       hexdigest(k, u.digest_stream.writers[k])]]]

\* _send_to_metadata_provider(path, metadata, digests)
OSFStorageProvider_send_to_metadata_provider(u, store, fault) ==
    LET u1 == Logged([u EXCEPT !.faulted = @ \/ fault], "report", u.complete)
    IN [store |-> store,
        run |-> IF fault THEN Fail(u1, "MetadataError") ELSE [u1 EXCEPT !.pc = "done"]]

\* The next statement of a running upload.
OSFStorageProvider_upload(u, store, id, finished, fault, orphan) ==
    CASE u.pc = "idle"   -> [store |-> store,
                             run |-> OSFStorageProvider_upload_begin(u, id, finished)]
      [] u.pc = "gamma"  -> OSFStorageProvider_upload_pending(u, store, fault, orphan)
      [] u.pc = "delta"  -> OSFStorageProvider_upload_lookup(u, store, fault)
      [] u.pc = "move"   -> OSFStorageProvider_upload_move(u, store, fault)
      [] u.pc = "delete" -> OSFStorageProvider_upload_delete(u, store, fault)
      [] u.pc = "zeta"   -> OSFStorageProvider_upload_digests(u, store)
      [] u.pc = "report" -> OSFStorageProvider_send_to_metadata_provider(u, store, fault)

\* ------------------------------------- OSFStorageProvider: move and copy
\* `None` as a path identifier or as the rename argument.
NoId == "None"

\* A path: its segment names, whether it is a folder, and the identifier
\* the metadata service gave its last segment.
WaterButlerPath(names, is_dir, identifier) ==
    [names |-> names, is_dir |-> is_dir, identifier |-> identifier]

materialized_path(p) == <<p.names, p.is_dir>>

child(base, name, identifier, folder) ==
    WaterButlerPath(Append(base.names, name), folder, identifier)

PathName(p) == IF p.names = <<>> THEN "" ELSE p.names[Len(p.names)]

\* A request, as the operation's log keeps it: whom it went to and what
\* it asked for.
Request(to, op, what) == [to |-> to, op |-> op, what |-> what]

\* x.kind == ('folder' if folder else 'file')
KindOf(folder) == IF folder THEN "folder" ELSE "file"

\* revalidate_path(base, path, folder): lists base's children at the
\* metadata service and looks for an entry of that name and kind.
OSFStorageProvider_revalidate_path(base, name, folder, children) ==
    LET found == {x \in children : x.name = name /\ x.kind = KindOf(folder)}
    IN IF found # {}
       THEN child(base, name, (CHOOSE x \in found : TRUE).id, folder)
       ELSE child(base, name, NoId, folder)

\* path.increment_name()
increment_name(name) ==
    CASE name = "a" -> "a (1)"
      [] name = "b" -> "b (1)"
      [] name = "d" -> "d (1)"
      [] OTHER -> name

\* dest_provider.handle_naming(src_path, dest_path, rename, conflict): a
\* folder destination gets the source's (or the new) name appended, then
\* the name conflict is settled: replace keeps the path, warn raises, keep
\* takes the next free name.  Each look at the destination is a request
\* to the metadata service.
BaseProvider_handle_naming(m) ==
    LET name == IF m.rename # NoId THEN m.rename ELSE PathName(m.src_path)
        p1 == IF m.dest_path.is_dir
              THEN OSFStorageProvider_revalidate_path(m.dest_path, name,
                                                      m.src_path.is_dir, m.dest_children)
              ELSE m.dest_path
        log1 == IF m.dest_path.is_dir
                THEN Append(m.log, Request("metadata", "GET", "children")) ELSE m.log
        exists == p1.identifier # NoId
        log2 == IF exists THEN Append(log1, Request("metadata", "GET", "item")) ELSE log1
        p2 == WaterButlerPath(SubSeq(p1.names, 1, Len(p1.names) - 1)
                                  \o <<increment_name(PathName(p1))>>,
                              p1.is_dir, NoId)
    IN IF ~exists \/ m.conflict = "replace"
       THEN [m EXCEPT !.pc = "check", !.dest_path = p1, !.log = log2]
       ELSE IF m.conflict = "warn"
       THEN [m EXCEPT !.pc = "raised", !.raised = "NamingConflict", !.log = log2]
       ELSE [m EXCEPT !.pc = "check", !.dest_path = p2,
                      !.log = Append(log2, Request("metadata", "GET", "children"))]

\* self.shares_storage_root(dest_provider)
BaseProvider_shares_storage_root(m) == m.shares_storage_root

\* The intra move taken only between different regions.
OSFStorageProvider_can_intra_move_crossRegion(m) == m.dest_name = "osfstorage" /\ ~m.same_region

\* can_intra_move / can_intra_copy: the same class and the same region.
OSFStorageProvider_can_intra_move(m) == m.dest_name = "osfstorage" /\ m.same_region

\* The first statements without the hand-over to the generic move/copy.
OSFStorageProvider_move_begin_undelegated(m) ==
    IF m.handle_naming THEN [m EXCEPT !.pc = "naming"] ELSE [m EXCEPT !.pc = "check"]

\* move/copy from its first statement to the call of handle_naming.
OSFStorageProvider_move_begin(m) ==
    IF m.dest_name # "osfstorage"
    THEN [m EXCEPT !.pc = "done",
                   !.log = Append(@, Request("generic", m.action, "super"))]
    ELSE IF m.handle_naming THEN [m EXCEPT !.pc = "naming"]
    ELSE [m EXCEPT !.pc = "check"]

\* The choice of branch alone, without the guard against self-overwrite.
OSFStorageProvider_move_check_unguarded(m) ==
    IF OSFStorageProvider_can_intra_move(m) THEN [m EXCEPT !.pc = "intra"]
    ELSE IF m.src_path.is_dir THEN [m EXCEPT !.pc = "folder"]
    ELSE [m EXCEPT !.pc = "download"]

\* files and folders shouldn't overwrite themselves; then the choice
\* between the intra move, the folder operation and the download.
OSFStorageProvider_move_check(m) ==
    IF /\ BaseProvider_shares_storage_root(m)
       /\ materialized_path(m.src_path) = materialized_path(m.dest_path)
    THEN [m EXCEPT !.pc = "raised", !.raised = "OverwriteSelfError"]
    ELSE IF OSFStorageProvider_can_intra_move(m) THEN [m EXCEPT !.pc = "intra"]
    ELSE IF m.src_path.is_dir THEN [m EXCEPT !.pc = "folder"]
    ELSE [m EXCEPT !.pc = "download"]

\* What a call on the metadata service's side comes to: the requests made
\* so far and the exception it raised, "none" when it returned.
Requested(log, raised) == [log |-> log, raised |-> raised]

\* delete(path): a path without identifier is not found, the root is not
\* deleted without confirm_delete=1, anything else is one DELETE request.
OSFStorageProvider_delete(log, path, fault) ==
    IF path.identifier = NoId THEN Requested(log, "NotFoundError")
    ELSE IF path.names = <<>> THEN Requested(log, "DeleteError")
    ELSE Requested(Append(log, Request("metadata", "DELETE", "item")),
                   IF fault THEN "UnhandledProviderError" ELSE "none")

\* The relocation sent first and the destination deleted after it.
OSFStorageProvider_do_intra_move_or_copy_deleteLast(m, fault, early) ==
    LET log1 == Append(m.log, Request("metadata", "POST", "hooks"))
        deleted == IF m.dest_path.identifier # NoId
                   THEN OSFStorageProvider_delete(log1, m.dest_path, FALSE)
                   ELSE Requested(log1, "none")
    IN IF fault \/ deleted.raised # "none"
       THEN [m EXCEPT !.pc = "raised", !.log = deleted.log,
                      !.raised = IF fault THEN "UnhandledProviderError" ELSE deleted.raised]
       ELSE [m EXCEPT !.pc = "done", !.log = deleted.log,
                      !.created = m.dest_path.identifier = NoId]

\* _do_intra_move_or_copy: whatever is at the destination is deleted, then
\* one POST to hooks/<action> relocates the entry; a folder's children are
\* listed afterwards.  The collaborator may fail the delete (early) or the
\* relocation.
OSFStorageProvider_do_intra_move_or_copy(m, fault, early) ==
    LET had == m.dest_path.identifier # NoId
        deleted == IF had THEN OSFStorageProvider_delete(m.log, m.dest_path, fault /\ early)
                   ELSE Requested(m.log, "none")
        log2 == Append(deleted.log, Request("metadata", "POST", "hooks"))
        log3 == IF m.src_path.is_dir
                THEN log2 \o <<Request("metadata", "GET", "validate"),
                               Request("metadata", "GET", "children")>>
                ELSE log2
    IN IF deleted.raised # "none"
       THEN [m EXCEPT !.pc = "raised", !.raised = deleted.raised, !.log = deleted.log]
       ELSE IF fault
       THEN [m EXCEPT !.pc = "raised", !.raised = "UnhandledProviderError", !.log = log2]
       ELSE [m EXCEPT !.pc = "done", !.log = log3,
                      !.created = IF m.src_path.is_dir THEN ~had
                                  ELSE m.dest_path.identifier = NoId]

\* _folder_file_op(self.move, ...) and, for a move, self.delete(src_path)
OSFStorageProvider_move_folder(m, fault) ==
    LET log1 == Append(m.log, Request("generic", "folder_file_op", m.action))
    IN IF fault THEN [m EXCEPT !.pc = "raised", !.raised = "UnhandledProviderError",
                               !.log = log1]
       ELSE [m EXCEPT !.pc = "done", !.created = TRUE,
                      !.log = IF m.action = "move"
                              THEN Append(log1, Request("metadata", "DELETE", "item"))
                              ELSE log1]

\* download(src_path): the metadata service names the stored object, the
\* storage backend hands out its body as a response stream.
OSFStorageProvider_download(m, fault) ==
    LET log1 == Append(m.log, Request("metadata", "GET", "download"))
    IN IF m.src_path.identifier = NoId
       THEN [m EXCEPT !.pc = "raised", !.raised = "NotFoundError"]
       ELSE IF fault
       THEN [m EXCEPT !.pc = "raised", !.raised = "DownloadError", !.log = log1]
       ELSE [m EXCEPT !.pc = "commit",
                      !.log = Append(log1, Request("storage", "download", "item")),
                      !.download_stream =
                          ResponseStreamReader("http", Response(<<m.content>>, TRUE, FALSE),
                                               SizeNone)]

\* _send_to_storage_provider(stream, path) from its first statement to its
\* return (or to the exception that leaves it), the backend failing nothing.
RECURSIVE OSFStorageProvider_send_to_storage_provider(_, _)
OSFStorageProvider_send_to_storage_provider(at, id) ==
    IF at.run.pc \in {"report", "raised"} THEN at
    ELSE OSFStorageProvider_send_to_storage_provider(
             OSFStorageProvider_upload(at.run, at.store, id, {}, FALSE, FALSE), id)

RECURSIVE StorageRequests(_)
StorageRequests(log) ==
    IF log = <<>> THEN <<>>
    ELSE <<Request("storage", Head(log).op, Head(log).path.kind)>> \o StorageRequests(Tail(log))

\* The move or copy once _send_to_storage_provider has returned or raised.
OSFStorageProvider_move_committed(m, res) ==
    [store |-> res.store,
     mv |-> [m EXCEPT !.log = @ \o StorageRequests(res.run.log),
                      !.download_stream = res.run.digest_stream.readable,
                      !.pc = IF res.run.pc = "raised" THEN "raised" ELSE "relocate",
                      !.raised = res.run.raised]]

\* dest_provider._send_to_storage_provider(download_stream, dest_path)
OSFStorageProvider_move_commit(m, st) ==
    OSFStorageProvider_move_committed(m,
        OSFStorageProvider_send_to_storage_provider(
            [store |-> st,
             run |-> [NewRun(m.content) EXCEPT !.stream = m.download_stream]], 0))

\* The statement a running move or copy is at.
OSFStorageProvider_move_statement(m, st, fault, early) ==
    CASE m.pc = "called"   -> [store |-> st, mv |-> OSFStorageProvider_move_begin(m)]
      [] m.pc = "naming"   -> [store |-> st, mv |-> BaseProvider_handle_naming(m)]
      [] m.pc = "check"    -> [store |-> st, mv |-> OSFStorageProvider_move_check(m)]
      [] m.pc = "intra"    -> [store |-> st,
                               mv |-> OSFStorageProvider_do_intra_move_or_copy(m, fault, early)]
      [] m.pc = "folder"   -> [store |-> st, mv |-> OSFStorageProvider_move_folder(m, fault)]
      [] m.pc = "download" -> [store |-> st, mv |-> OSFStorageProvider_download(m, fault)]
      [] m.pc = "commit"   -> OSFStorageProvider_move_commit(m, st)
      [] m.pc = "relocate" -> [store |-> st,
                               mv |-> OSFStorageProvider_do_intra_move_or_copy(m, fault, early)]

\* The statement at pc has run: it is noted among the steps taken, and the
\* end of naming resolution marks where the requests of the later steps
\* begin.
OSFStorageProvider_move_stepped(pc, next) ==
    [store |-> next.store,
     mv |-> [next.mv EXCEPT !.steps = Append(@, pc),
                            !.named = IF pc = "naming" THEN Len(next.mv.log) ELSE @]]

\* The next statement of a running move or copy.
OSFStorageProvider_move(m, st, fault, early) ==
    OSFStorageProvider_move_stepped(m.pc,
                                    OSFStorageProvider_move_statement(m, st, fault, early))

\* The entries of the source's folder, as the metadata service has them.
SrcChildren ==
    {[name |-> "a", kind |-> "file", id |-> "a1"],
     [name |-> "d", kind |-> "folder", id |-> "d1"]}

\* The entries a destination folder may have.
DestChildren(shares) ==
    IF shares
    THEN {SrcChildren, SrcChildren \cup {[name |-> "b", kind |-> "file", id |-> "b1"]}}
    ELSE {{}, {[name |-> "a", kind |-> "file", id |-> "a2"]},
          {[name |-> "a", kind |-> "file", id |-> "a2"],
           [name |-> "b", kind |-> "file", id |-> "b2"],
           [name |-> "d", kind |-> "folder", id |-> "d2"]}}

RootPath(shares) == WaterButlerPath(<<>>, TRUE, IF shares THEN "root1" ELSE "root2")

SrcPaths ==
    {OSFStorageProvider_revalidate_path(RootPath(TRUE), x.name, x.kind = "folder", SrcChildren)
        : x \in SrcChildren}

\* The destination paths a caller passes: the folder, or a validated path
\* in it.
DestPaths(shares, children) ==
    {RootPath(shares)}
    \cup {OSFStorageProvider_revalidate_path(RootPath(shares), n, FALSE, children)
            : n \in {"a", "b"}}
    \cup {OSFStorageProvider_revalidate_path(RootPath(shares), "d", TRUE, children)}

\* A move or copy that has just been called.
NewMove(action, dest_name, handle_naming, rename, conflict, shares, same_region, src_path, dest_path, children) ==
    [pc |-> "called", action |-> action, dest_name |-> dest_name,
     handle_naming |-> handle_naming, rename |-> rename, conflict |-> conflict,
     shares_storage_root |-> shares, same_region |-> same_region,
     src_path |-> src_path, dest_path |-> dest_path, dest_children |-> children,
     content |-> <<101>>, download_stream |-> None,
     log |-> <<>>, raised |-> "none", created |-> FALSE, named |-> 0, steps |-> <<>>]

\* Two providers share a storage root only when both are osfstorage with the
\* same settings, and then they are in the same region.
ConsistentMove(dest_name, shares, same_region) ==
    shares => (dest_name = "osfstorage" /\ same_region)

IdleMove ==
    NewMove("move", "other", FALSE, NoId, "replace", FALSE, FALSE,
            WaterButlerPath(<<"a">>, FALSE, "a1"), RootPath(FALSE), {})

\* ------------------------------------------------------------ the builders
MaxFields == 2
MaxBuilderCalls == 3

\* What a call on a builder comes to: the object afterwards, how the call
\* ended, and what it returned.
Called(obj, outcome, value) == [obj |-> obj, outcome |-> outcome, value |-> value]

\* A str value, a list, and the dict a file field is given as.
PyStr(text) == [kind |-> "str", text |-> text]

PyList(items) == [kind |-> "list", items |-> items]

FileDict(name, stream) == [kind |-> "dict", name |-> name, stream |-> stream]

\* isinstance(value, SimpleStreamWrapper)
IsStream(value) ==
    value.kind \in {"String", "Empty", "Digest", "Multi", "Cutoff", "Base64", "Response"}

\* str(n) of a size, as ASCII digits.
RECURSIVE str(_)
str(n) == IF n < 10 THEN <<48 + n>> ELSE str(n \div 10) \o <<48 + (n % 10)>>

\* The texts the builders write, as UTF-8.
TextFormData == <<102, 111, 114, 109, 45, 100, 97, 116, 97>>

TextMultipart ==
    <<109, 117, 108, 116, 105, 112, 97, 114, 116, 47, 102, 111, 114, 109, 45, 100, 97, 116,
      97, 59, 32, 98, 111, 117, 110, 100, 97, 114, 121, 61>>

CRLF == <<13, 10>>

\* uuid.uuid4().hex: 32 hexadecimal digits, here one and the same digit.
Boundary == [i \in 1..32 |-> 98]

\* MultiStreamWrapper(*args, **kwargs) as a call: __init__ takes
\* *readables only, and sums the size attribute of each.
MultiStreamWrapper_call(args, kwargs) ==
    IF kwargs # {} THEN Called(None, "TypeError", None)
    ELSE IF \E i \in 1..Len(args) : ~IsStream(args[i])
    THEN Called(None, "AttributeError", None)
    ELSE Called(MultiStreamWrapper(args), "return", MultiStreamWrapper(args))

\* The loop of make_multistream_from_json over data.items()
RECURSIVE make_multistream_from_json_items(_, _)
make_multistream_from_json_items(data, streams) ==
    IF data = <<>> THEN Called(None, "return", streams)
    ELSE LET key == Head(data).key
             value == Head(data).value
         IN IF ~IsStream(value) /\ value.kind # "str"
            THEN Called(None, "TypeError", streams)
            ELSE make_multistream_from_json_items(
                     Tail(data),
                     streams \o <<StringStreamWrapper(<<34>> \o key \o <<34, 58, 34>>),
                                  IF IsStream(value) THEN value
                                  ELSE StringStreamWrapper(value.text),
                                  StringStreamWrapper(<<34, 44>>)>>)

make_multistream_from_json(data) ==
    LET items == make_multistream_from_json_items(data, <<StringStreamWrapper(<<123>>)>>)
    IN IF items.outcome # "return" THEN Called(None, items.outcome, None)
       ELSE MultiStreamWrapper_call(
                <<PyList(items.value \o <<StringStreamWrapper(<<34, 125>>)>>)>>, {})

\* _make_header / FormDataStream.make_header: extra and additional_headers
\* are lists of (key, value) with the None values already left out.
RECURSIVE make_header_extra(_)
make_header_extra(extra) ==
    IF extra = <<>> THEN <<>>
    ELSE <<59, 32>> \o Head(extra)[1] \o <<61, 34>> \o Head(extra)[2] \o <<34>>
         \o make_header_extra(Tail(extra))

RECURSIVE make_header_additional(_)
make_header_additional(additional) ==
    IF additional = <<>> THEN <<>>
    ELSE Head(additional)[1] \o <<58, 32>> \o Head(additional)[2]
         \o (IF Len(additional) > 1 THEN CRLF ELSE <<>>)
         \o make_header_additional(Tail(additional))

\* 'Content-Disposition: {}; name="{}"' and what follows it.
make_header(name, disposition, extra, additional) ==
    <<67, 111, 110, 116, 101, 110, 116, 45, 68, 105, 115, 112, 111, 115, 105, 116, 105,
      111, 110, 58, 32>>
    \o disposition \o <<59, 32, 110, 97, 109, 101, 61, 34>> \o name \o <<34>>
    \o make_header_extra(extra) \o CRLF
    \o (IF additional # <<>> THEN make_header_additional(additional) \o CRLF ELSE <<>>)
    \o CRLF

\* The header of a file field with the default disposition 'file', mime
\* 'application/octet-stream' and transcoding 'binary'; a filename that is
\* None is left out.
make_header_file(key, filename) ==
    make_header(key, <<102, 105, 108, 101>>,
                IF filename.kind = "None" THEN <<>>
                ELSE <<<<(<<102, 105, 108, 101, 110, 97, 109, 101>>), filename.text>>>>,
                <<<<(<<67, 111, 110, 116, 101, 110, 116, 45, 84, 121, 112, 101>>),
                    (<<97, 112, 112, 108, 105, 99, 97, 116, 105, 111, 110, 47, 111, 99,
                       116, 101, 116, 45, 115, 116, 114, 101, 97, 109>>)>>,
                  <<(<<67, 111, 110, 116, 101, 110, 116, 45, 84, 114, 97, 110, 115, 102,
                       101, 114, 45, 69, 110, 99, 111, 100, 105, 110, 103>>),
                    (<<98, 105, 110, 97, 114, 121>>)>>>>)

make_formdata_multistream_start_boundary(boundary) ==
    StringStreamWrapper(<<45, 45>> \o boundary \o CRLF)

make_formdata_multistream_end_boundary(boundary) ==
    StringStreamWrapper(<<45, 45>> \o boundary \o <<45, 45>> \o CRLF)

\* _make_headers(boundary): the Content-Length entry is commented out.
make_formdata_multistream_make_headers(boundary) ==
    [k \in {"Content-Type"} |-> TextMultipart \o boundary]

\* The loop of make_formdata_multistream over data.items()
RECURSIVE make_formdata_multistream_items(_, _, _)
make_formdata_multistream_items(data, boundary, streams) ==
    IF data = <<>> THEN Called(None, "return", streams)
    ELSE LET key == Head(data).key
             value == Head(data).value
             started == Append(streams, make_formdata_multistream_start_boundary(boundary))
         IN IF value.kind = "dict"
            THEN make_formdata_multistream_items(
                     Tail(data), boundary,
                     started \o <<StringStreamWrapper(make_header_file(key, value.name)),
                                  value.stream,
                                  StringStreamWrapper(CRLF)>>)
            ELSE IF value.kind = "str"
            THEN make_formdata_multistream_items(
                     Tail(data), boundary,
                     Append(started,
                            StringStreamWrapper(make_header(key, TextFormData, <<>>, <<>>)
                                                \o value.text \o CRLF)))
            ELSE Called(None, "TypeError", started)

make_formdata_multistream(data) ==
    LET items == make_formdata_multistream_items(data, Boundary, <<>>)
    IN IF items.outcome # "return" THEN Called(None, items.outcome, None)
       ELSE MultiStreamWrapper_call(
                <<PyList(Append(items.value,
                                make_formdata_multistream_end_boundary(Boundary)))>>,
                {"headers"})

\* The attributes an instance of FormDataStream has: those of the
\* multi-stream class and its own.
FormDataStreamAttrs ==
    SimpleStreamWrapperAttrs
    \cup {"_at_eof", "_size", "_readables", "_current_readable", "_cycle"}
    \cup {"make_boundary", "make_header", "can_add_more", "boundary", "end_boundary",
          "headers", "finalize", "add_fields", "add_field", "add_file",
          "_make_boundary_stream"}

\* FormDataStream.__init__ up to the loop over the fields.
FormDataStream ==
    [kind |-> "FormData", can_add_more |-> TRUE, boundary |-> Boundary,
     multi |-> MultiStreamWrapper(<<>>)]

\* self.add_streams(...): the attribute is looked up before the arguments
\* are evaluated, and no class of the repository defines it.
FormDataStream_add_streams(f, streams) ==
    IF "add_streams" \notin FormDataStreamAttrs THEN Called(f, "AttributeError", None)
    ELSE Called(f, "return", None)

FormDataStream_end_boundary(f) ==
    StringStreamWrapper(<<45, 45>> \o f.boundary \o <<45, 45>> \o CRLF)

FormDataStream_make_boundary_stream(f) ==
    StringStreamWrapper(<<45, 45>> \o f.boundary \o CRLF)

FormDataStream_finalize(f) ==
    IF "stream" \notin FormDataStreamAttrs THEN Called(f, "AttributeError", None)
    ELSE IF f.can_add_more
    THEN FormDataStream_add_streams([f EXCEPT !.can_add_more = FALSE],
                                    <<FormDataStream_end_boundary(f)>>)
    ELSE Called(f, "return", None)

FormDataStream_headers(f) ==
    LET done == FormDataStream_finalize(f)
    IN IF done.outcome # "return" THEN done
       ELSE Called(done.obj, "return",
                   [k \in {"Content-Length", "Content-Type"} |->
                       IF k = "Content-Length" THEN str(Size(done.obj.multi))
                       ELSE TextMultipart \o f.boundary])

FormDataStream_read(f, n) ==
    LET done == IF f.can_add_more THEN FormDataStream_finalize(f)
                ELSE Called(f, "return", None)
        r == MultiStreamWrapper_read(done.obj.multi, n)
    IN IF done.outcome # "return" THEN done
       ELSE Called([done.obj EXCEPT !.multi = r.stream], r.outcome, r.chunk)

FormDataStream_add_field(f, key, value) ==
    IF ~f.can_add_more THEN Called(f, "AssertionError", None)
    ELSE FormDataStream_add_streams(
             f, <<FormDataStream_make_boundary_stream(f),
                  StringStreamWrapper(make_header(key, TextFormData, <<>>, <<>>)
                                      \o value.text \o CRLF)>>)

FormDataStream_add_file(f, field_name, file_stream) ==
    IF ~f.can_add_more THEN Called(f, "AssertionError", None)
    ELSE FormDataStream_add_streams(
             f, <<FormDataStream_make_boundary_stream(f),
                  StringStreamWrapper(make_header_file(field_name, None)),
                  file_stream,
                  StringStreamWrapper(CRLF)>>)

\* The loop of FormDataStream.__init__ over fields.items(): a tuple goes to
\* add_file, anything that is no asyncio.StreamReader to add_field.
RECURSIVE FormDataStream_init_fields(_, _)
FormDataStream_init_fields(f, fields) ==
    IF fields = <<>> THEN Called(f, "return", f)
    ELSE LET value == Head(fields).value
             added == IF value.kind = "dict"
                      THEN FormDataStream_add_file(f, Head(fields).key, value.stream)
                      ELSE FormDataStream_add_field(f, Head(fields).key, value)
         IN IF added.outcome # "return" THEN Called(None, added.outcome, None)
            ELSE FormDataStream_init_fields(added.obj, Tail(fields))

\* The field names and values the builders are given.
FieldKeys == {<<96 + i>> : i \in 1..MaxFields}

FieldValues ==
    {PyStr(<<>>), PyStr(<<101>>),
     StringStreamWrapper(<<101, 115>>),
     Base64EncodeStream(StringStreamWrapper(<<115>>)),
     FileDict(PyStr(<<102>>), StringStreamWrapper(<<101>>))}

\* The dicts of up to k fields, in insertion order, no key twice.
RECURSIVE Mappings(_)
Mappings(k) ==
    IF k = 0 THEN {<<>>}
    ELSE LET shorter == Mappings(k - 1)
             longer == {Append(d, [key |-> key, value |-> value]) :
                           d \in {x \in shorter : Len(x) = k - 1},
                           key \in FieldKeys, value \in FieldValues}
         IN shorter \cup {d \in longer : \A i, j \in 1..k : d[i].key = d[j].key => i = j}

\* A builder that has not been called yet, with the dict it will be given.
NewBuilder(target, data) == [target |-> target, data |-> data, obj |-> None, log |-> <<>>]

IdleBuilder == NewBuilder("FormDataStream", <<>>)

\* The call is written down with what the builder is after it.
BuilderCalled(b, op, res) ==
    [b EXCEPT !.obj = res.obj,
              !.log = Append(@, [op |-> op, outcome |-> res.outcome, value |-> res.value,
                                 before |-> b.obj, after |-> res.obj])]

\* ------------------------------------------------------ the state machine
VARIABLES
    stream,      \* the stream object the consumer holds
    built,       \* that object as its constructor returned it
    content,     \* the byte sequence the object stood for when it was built
    delivered,   \* the chunks returned to the consumer so far, concatenated
    last,        \* the last call: operation, argument, outcome, pre-state
    sawEof,      \* at_eof() was true before some call already made
    sawEmpty,    \* a read(n), n # 0, before the last call returned no bytes
    calls,       \* the number of calls the consumer has made
    asked,       \* the sizes the consumer passed to read(), in call order
    store,       \* the storage backend: path -> stored bytes
    run,         \* the uploads: run -> position, streams, names, digests, log
    mv,          \* the move or copy: position, arguments, paths, requests made
    builder      \* the form or JSON builder: its dict, its object, the calls made

vars == <<stream, built, content, delivered, last, sawEof, sawEmpty, calls, asked,
          store, run, mv, builder>>

streamVars == <<stream, built, content, delivered, last, sawEof, sawEmpty, calls, asked>>

providerVars == <<store, run, mv, builder>>

EmptyStore == [n \in {} |-> <<>>]

NoCall == [op |-> "none", n |-> 0, outcome |-> "return", chunk |-> <<>>,
           value |-> 0, pre |-> None]

Init ==
    /\ stream \in Scenarios
    /\ built = stream
    /\ content = LogicalContent(stream)
    /\ delivered = <<>>
    /\ last = NoCall
    /\ sawEof = FALSE
    /\ sawEmpty = FALSE
    /\ calls = 0
    /\ asked = <<>>
    /\ store = EmptyStore
    /\ run = [r \in Runs |-> NewRun(<<>>)]
    /\ mv = IdleMove
    /\ builder = IdleBuilder

EmptyReadReturned(call) ==
    call.op = "read" /\ call.n # 0 /\ call.outcome = "return" /\ call.chunk = <<>>

\* The consumer awaits stream.read(n).  A call that never returns leaves
\* the consumer waiting: nothing is called after it.
ReadCall(n) ==
    LET r == Read(stream, n)
    IN /\ last.outcome # "hang"
       /\ last.op # "abort"
       /\ calls < MaxCalls
       /\ calls' = calls + 1
       /\ stream' = r.stream
       /\ delivered' = IF r.outcome = "return" THEN delivered \o r.chunk ELSE delivered
       /\ last' = [op |-> "read", n |-> n, outcome |-> r.outcome, chunk |-> r.chunk,
                   value |-> 0, pre |-> stream]
       /\ sawEof' = (sawEof \/ AtEof(stream))
       /\ sawEmpty' = (sawEmpty \/ EmptyReadReturned(last))
       /\ asked' = Append(asked, n)
       /\ UNCHANGED <<built, content>>
       /\ UNCHANGED providerVars

StringStreamWrapperRead == \E n \in ReadSizes : stream.kind = "String" /\ ReadCall(n)

EmptyStreamWrapperRead == \E n \in ReadSizes : stream.kind = "Empty" /\ ReadCall(n)

DigestStreamWrapperRead == \E n \in ReadSizes : stream.kind = "Digest" /\ ReadCall(n)

MultiStreamWrapperRead == \E n \in ReadSizes : stream.kind = "Multi" /\ ReadCall(n)

CutoffStreamRead == \E n \in ReadSizes : stream.kind = "Cutoff" /\ ReadCall(n)

Base64EncodeStreamRead == \E n \in ReadSizes : stream.kind = "Base64" /\ ReadCall(n)

ResponseStreamReaderRead == \E n \in ReadSizes : stream.kind = "Response" /\ ReadCall(n)

\* The consumer of a response stream fails before the end of the stream:
\* the exception leaves the caller, which has no handler and no finally
\* clause, and no statement touches the stream again.
ConsumerAbort ==
    /\ stream.kind = "Response"
    /\ ~AtEof(stream)
    /\ last.outcome # "hang"
    /\ last.op # "abort"
    /\ calls < MaxCalls
    /\ calls' = calls + 1
    /\ last' = [op |-> "abort", n |-> 0, outcome |-> "raise", chunk |-> <<>>,
                value |-> 0, pre |-> stream]
    /\ sawEof' = (sawEof \/ AtEof(stream))
    /\ sawEmpty' = (sawEmpty \/ EmptyReadReturned(last))
    /\ UNCHANGED <<stream, built, content, delivered, asked>>
    /\ UNCHANGED providerVars

\* The consumer calls digest_stream.size().
DigestStreamWrapperSize ==
    LET r == DigestStreamWrapper_size(stream)
    IN /\ stream.kind = "Digest"
       /\ last.outcome # "hang"
       /\ calls < MaxCalls
       /\ calls' = calls + 1
       /\ last' = [op |-> "size", n |-> 0, outcome |-> r.outcome, chunk |-> <<>>,
                   value |-> r.value, pre |-> stream]
       /\ sawEof' = (sawEof \/ AtEof(stream))
       /\ sawEmpty' = (sawEmpty \/ EmptyReadReturned(last))
       /\ UNCHANGED <<stream, built, content, delivered, asked>>
       /\ UNCHANGED providerVars

Next ==
    \/ StringStreamWrapperRead
    \/ EmptyStreamWrapperRead
    \/ DigestStreamWrapperRead
    \/ DigestStreamWrapperSize
    \/ MultiStreamWrapperRead
    \/ CutoffStreamRead
    \/ Base64EncodeStreamRead
    \/ ResponseStreamReaderRead
    \/ ConsumerAbort

Spec == Init /\ [][Next]_vars

\* ------------------------------------------- the uploads' state machine
InitUpload ==
    /\ stream = EmptyStreamWrapper
    /\ built = stream
    /\ content = <<>>
    /\ delivered = <<>>
    /\ last = NoCall
    /\ sawEof = FALSE
    /\ sawEmpty = FALSE
    /\ calls = 0
    /\ asked = <<>>
    /\ store = EmptyStore
    /\ run \in [Runs -> {NewRun(data) : data \in SeqsUpTo(MaxUploadLen)}]
    /\ mv = IdleMove
    /\ builder = IdleBuilder

\* One run of upload() executes its next statement; the backend may fail
\* the call it makes, and a failed upload may leave an orphan.
UploadTo(r, next) == store' = next.store /\ run' = [run EXCEPT ![r] = next.run]

Upload(r) ==
    \E fault \in BOOLEAN, orphan \in BOOLEAN :
        /\ ~Finished(run[r])
        /\ UploadTo(r, OSFStorageProvider_upload(run[r], store, r,
                                                 {q \in Runs : Finished(run[q])},
                                                 fault, orphan))
        /\ UNCHANGED <<streamVars, mv, builder>>

NextUpload == \E r \in Runs : Upload(r)

SpecUpload == InitUpload /\ [][NextUpload]_vars

\* --------------------------------------- the move/copy's state machine
InitMove ==
    /\ stream = EmptyStreamWrapper
    /\ built = stream
    /\ content = <<>>
    /\ delivered = <<>>
    /\ last = NoCall
    /\ sawEof = FALSE
    /\ sawEmpty = FALSE
    /\ calls = 0
    /\ asked = <<>>
    /\ store = EmptyStore
    /\ run = [r \in Runs |-> NewRun(<<>>)]
    /\ builder = IdleBuilder
    /\ \E action \in {"move", "copy"}, dest_name \in {"osfstorage", "other"},
          handle_naming \in BOOLEAN, rename \in {NoId, "b"},
          conflict \in {"replace", "keep", "warn"},
          shares \in BOOLEAN, same_region \in BOOLEAN, src_path \in SrcPaths :
            \E children \in DestChildren(shares) :
                \E dest_path \in DestPaths(shares, children) :
                    /\ ConsistentMove(dest_name, shares, same_region)
                    /\ mv = NewMove(action, dest_name, handle_naming, rename, conflict,
                                    shares, same_region, src_path, dest_path, children)

\* The move or copy executes its next statement; the collaborator it
\* calls may fail the call.
MoveTo(next) == mv' = next.mv /\ store' = next.store

Move ==
    \E fault \in BOOLEAN, early \in BOOLEAN :
        /\ mv.pc \notin {"done", "raised"}
        /\ MoveTo(OSFStorageProvider_move(mv, store, fault, early))
        /\ UNCHANGED <<streamVars, run, builder>>

NextMove == Move

SpecMove == InitMove /\ [][NextMove]_vars

\* ------------------------------------------- the builders' state machine
InitBuild ==
    /\ stream = EmptyStreamWrapper
    /\ built = stream
    /\ content = <<>>
    /\ delivered = <<>>
    /\ last = NoCall
    /\ sawEof = FALSE
    /\ sawEmpty = FALSE
    /\ calls = 0
    /\ asked = <<>>
    /\ store = EmptyStore
    /\ run = [r \in Runs |-> NewRun(<<>>)]
    /\ mv = IdleMove
    /\ \E target \in {"make_multistream_from_json", "make_formdata_multistream",
                       "FormDataStream"},
          data \in Mappings(MaxFields) :
              builder = NewBuilder(target, data)

BuildTo(next) == builder' = next /\ UNCHANGED <<streamVars, store, run, mv>>

\* make_multistream_from_json(data) is called.
MakeMultistreamFromJson ==
    /\ builder.target = "make_multistream_from_json"
    /\ builder.log = <<>>
    /\ BuildTo(BuilderCalled(builder, "make_multistream_from_json",
                             make_multistream_from_json(builder.data)))

\* make_formdata_multistream(data) is called.
MakeFormdataMultistream ==
    /\ builder.target = "make_formdata_multistream"
    /\ builder.log = <<>>
    /\ BuildTo(BuilderCalled(builder, "make_formdata_multistream",
                             make_formdata_multistream(builder.data)))

\* FormDataStream(**fields) is called.
FormDataStreamNew ==
    /\ builder.target = "FormDataStream"
    /\ builder.log = <<>>
    /\ BuildTo(BuilderCalled(builder, "FormDataStream",
                             FormDataStream_init_fields(FormDataStream, builder.data)))

\* The calls on a FormDataStream that exists.
FormDataStreamLives ==
    /\ builder.obj # None
    /\ builder.obj.kind = "FormData"
    /\ Len(builder.log) < MaxBuilderCalls

FormDataStreamHeaders ==
    /\ FormDataStreamLives
    /\ BuildTo(BuilderCalled(builder, "headers", FormDataStream_headers(builder.obj)))

FormDataStreamFinalize ==
    /\ FormDataStreamLives
    /\ BuildTo(BuilderCalled(builder, "finalize", FormDataStream_finalize(builder.obj)))

FormDataStreamRead ==
    \E n \in {-1, 1} :
        /\ FormDataStreamLives
        /\ BuildTo(BuilderCalled(builder, "read", FormDataStream_read(builder.obj, n)))

FormDataStreamAddField ==
    \E key \in FieldKeys, value \in {v \in FieldValues : v.kind = "str"} :
        /\ FormDataStreamLives
        /\ BuildTo(BuilderCalled(builder, "add_field",
                                 FormDataStream_add_field(builder.obj, key, value)))

FormDataStreamAddFile ==
    \E key \in FieldKeys, value \in {v \in FieldValues : IsStream(v)} :
        /\ FormDataStreamLives
        /\ BuildTo(BuilderCalled(builder, "add_file",
                                 FormDataStream_add_file(builder.obj, key, value)))

NextBuild ==
    \/ MakeMultistreamFromJson
    \/ MakeFormdataMultistream
    \/ FormDataStreamNew
    \/ FormDataStreamHeaders
    \/ FormDataStreamFinalize
    \/ FormDataStreamRead
    \/ FormDataStreamAddField
    \/ FormDataStreamAddFile

SpecBuild == InitBuild /\ [][NextBuild]_vars

\* ------------------------------------------------------------ properties
RECURSIVE SumSeq(_)
SumSeq(q) == IF q = <<>> THEN 0 ELSE Head(q) + SumSeq(Tail(q))

IsPrefix(p, q) == Len(p) <= Len(q) /\ SubSeq(q, 1, Len(p)) = p

\* The reads made so far ask for exactly L bytes: one read(-1), or
\* positive sizes that sum to L.
ReadsCover(sizes, L) ==
    \/ sizes = <<-1>>
    \/ /\ sizes # <<>>
       /\ \A i \in 1..Len(sizes) : sizes[i] >= 1
       /\ SumSeq(sizes) = L

\* Every member of the concatenation has been read to its end.
MultiExhausted(m) ==
    \/ m.current_readable.kind = "None"
    \/ m.readables = <<>> /\ AtEof(m.current_readable)

\* C1: when the sizes requested from a DigestStreamWrapper over a
\* StringStreamWrapper sum to the length of its content (or one read(-1)
\* was made), each writer's digest is the digest of the whole content.
C1_ChunkBoundaryIndependence ==
    (stream.kind = "Digest" /\ ReadsCover(asked, Len(content)))
        => \A k \in WriterNames : hexdigest(k, stream.writers[k]) = Digest(k, content)

\* C2: every DigestStreamWrapper.read call hands its bytes to the consumer
\* and leaves each writer fed with exactly the concatenation of the bytes
\* returned so far, its digest being the digest of that prefix; a read that
\* returns no bytes leaves the digests as they were.
C2_WritersFedWhatWasReturned ==
    (stream.kind = "Digest" /\ last.op = "read")
        => /\ last.outcome = "return"
           /\ \A k \in WriterNames :
                /\ stream.writers[k].fed = delivered
                /\ hexdigest(k, stream.writers[k]) = Digest(k, delivered)
                /\ last.chunk = <<>> =>
                     hexdigest(k, stream.writers[k]) = hexdigest(k, last.pre.writers[k])

\* C3: DigestStreamWrapper passes the data through: every read returns, the
\* chunks returned so far are a prefix of the wrapped content, an empty read
\* comes only when they are the whole content, and one read() returns it all.
C3_TeePassesDataThrough ==
    (stream.kind = "Digest" /\ last.op = "read")
        => /\ last.outcome = "return"
           /\ IsPrefix(delivered, content)
           /\ (last.n # 0 /\ last.chunk = <<>>) => delivered = content
           /\ asked = <<-1>> => last.chunk = content

\* C4: DigestStreamWrapper.size() returns the declared size of the wrapped
\* stream, before any read and after any number of reads.
C4_TeeSizeIsWrappedSize ==
    (stream.kind = "Digest" /\ last.op = "size")
        => /\ last.outcome = "return"
           /\ last.value = Size(stream.readable)
           /\ last.value = Len(content)

\* C5: StringStreamWrapper.read(n), n >= 1, returns min(n, remaining) bytes,
\* and the bytes returned so far followed by the bytes still held are the
\* original content.
C5_StringReadExactSlices ==
    (stream.kind = "String" /\ last.op = "read" /\ last.n >= 1)
        => /\ Len(last.chunk) = Min(last.n, Len(last.pre.data))
           /\ delivered \o stream.data = content

\* C6: a read(n), n # 0, that returns no bytes leaves at_eof() true, and no
\* read after it returns a byte.
C6_EmptyReadIsEndOfStream ==
    /\ EmptyReadReturned(last) => AtEof(stream)
    /\ (sawEmpty /\ last.op = "read" /\ last.outcome = "return") => last.chunk = <<>>

\* C7: once at_eof() has been true, every later read returns an empty
\* result and at_eof() is still true.
C7_EofIsTerminal ==
    sawEof => /\ AtEof(stream)
              /\ last.op = "read" => (last.outcome = "return" /\ last.chunk = <<>>)

\* C8: every MultiStreamWrapper.read(n), n >= 1, returns min(n, remaining)
\* bytes, and the chunks returned so far are the members' contents in list
\* order, nothing dropped and nothing repeated.
C8_MultiReadSpansMembers ==
    (stream.kind = "Multi" /\ last.op = "read" /\ last.n >= 1)
        => /\ last.outcome = "return"
           /\ IsPrefix(delivered, content)
           /\ Len(last.chunk) =
                Min(last.n, Len(content) - (Len(delivered) - Len(last.chunk)))

\* C9: the size of a MultiStreamWrapper is the sum of its members' sizes and
\* the number of bytes a consumer has when it has drained the stream.
C9_MultiSizeIsSumAndDrainTotal ==
    stream.kind = "Multi"
        => /\ Size(stream) = Len(content)
           /\ (last.outcome = "return" /\ MultiExhausted(stream))
                => Len(delivered) = Size(stream)

\* C10: a MultiStreamWrapper with no members has size 0 and at_eof() true
\* from construction; whenever every member is exhausted at_eof() is true.
C10_MultiExhaustedIsEof ==
    (stream.kind = "Multi" /\ last.outcome # "hang" /\ MultiExhausted(stream))
        => /\ AtEof(stream)
           /\ stream.current_readable.kind = "None" => Size(stream) = 0

\* C11: the bytes a CutoffStream has returned, over reads with positive n and
\* n = -1 in any mix, never number more than its cutoff.
C11_CutoffNeverExceeded ==
    stream.kind = "Cutoff" => Len(delivered) <= stream.cutoff

\* C12: once a CutoffStream has returned as many bytes as its cutoff,
\* at_eof() is true, and a read made from then on returns an empty result
\* and pulls nothing from the wrapped stream.
C12_CutoffReachedIsEof ==
    stream.kind = "Cutoff"
        => /\ Len(delivered) = stream.cutoff => AtEof(stream)
           /\ (last.op = "read" /\ Len(delivered) - Len(last.chunk) = stream.cutoff)
                => /\ last.outcome = "return"
                   /\ last.chunk = <<>>
                   /\ stream.readable = last.pre.readable

\* C13: the size of a CutoffStream is the lesser of its cutoff and the size
\* of the wrapped stream, as built and after any reads.
C13_CutoffSizeIsMin ==
    stream.kind = "Cutoff"
        => /\ Size(stream) = Min(built.cutoff, Len(built.readable.data))
           /\ Size(stream) = Size(built)

\* A read of a CutoffStream whose cutoff is below the wrapped size has
\* returned bytes.
C13_Witness ==
    /\ stream.kind = "Cutoff"
    /\ last.op = "read" /\ last.outcome = "return" /\ last.chunk # <<>>
    /\ built.cutoff < Len(built.readable.data)

\* C14: for any wrapped content and any sequence of Base64EncodeStream.read(n)
\* calls with n >= 1 continued until at_eof(), the concatenation of the
\* returned chunks is the single-pass base64 encoding of the whole wrapped
\* content, and no read returns more than n bytes.
C14_Base64ChunkedEqualsSinglePass ==
    (/\ stream.kind = "Base64"
     /\ \A i \in 1..Len(asked) : asked[i] >= 1
     /\ last.op = "read" /\ last.outcome = "return")
        => /\ Len(last.chunk) <= last.n
           /\ AtEof(stream) => delivered = b64encode(LogicalContent(built.stream))

\* C15: Base64EncodeStream.size is the smallest multiple of 4 that is at
\* least 4/3 of the wrapped size, i.e. 4 * ceil(wrapped size / 3), whenever
\* the wrapped size is known, and is unknown exactly when the wrapped size
\* is unknown.
C15_Base64SizeIsPaddedFourThirds ==
    stream.kind = "Base64"
        => LET wrapped == Size(built.stream)
               size == Size(stream)
           IN /\ (size = SizeNone) <=> (wrapped = SizeNone)
              /\ wrapped # SizeNone
                    => /\ size % 4 = 0
                       /\ 3 * size >= 4 * wrapped
                       /\ 3 * (size - 4) < 4 * wrapped
                       /\ size = 4 * ((wrapped + 2) \div 3)

C15_Witness ==
    /\ stream.kind = "Base64"
    /\ Size(built.stream) # SizeNone
    /\ Size(built.stream) % 3 = 2
    /\ last.op = "read" /\ last.outcome = "return"

\* C16: ResponseStreamReader releases the underlying response exactly once
\* over any sequence of read calls: at the first read that observes an empty
\* chunk, and never a second time in later reads after the end of the stream.
C16_ResponseReleasedExactlyOnce ==
    (stream.kind = "Response" /\ last.op = "read")
        => /\ stream.response.released <= 1
           /\ (last.outcome = "return" /\ last.chunk = <<>>)
                => stream.response.released = 1
           /\ (last.outcome = "return" /\ last.chunk # <<>>)
                => stream.response.released = last.pre.response.released

\* C17: if the consumer stops reading a ResponseStreamReader before the end
\* of the stream, the underlying response is released all the same.
C17_ResponseReleasedOnAbort ==
    (stream.kind = "Response" /\ last.op = "abort")
        => stream.response.released >= 1

\* The run has asked the backend (or the metadata service) for op.
LoggedOp(u, op) == \E i \in 1..Len(u.log) : u.log[i].op = op

\* C18: uploading identical content twice through the commit protocol, one
\* upload after the other, leaves exactly one content-addressed object: the
\* second upload finds the sha256-named object present, deletes its own
\* pending object and does not move it, and both uploads report the same
\* sha256 digest.
C18_IdenticalUploadsStoreOnce ==
    \A a, b \in Runs :
        (/\ a # b /\ a \in run[b].after
         /\ run[a].content = run[b].content
         /\ Finished(run[b])
         /\ ~run[a].faulted /\ ~run[b].faulted)
            => LET complete == CompletePath(Digest("sha256", run[b].content))
               IN /\ run[a].raised = "none" /\ run[b].raised = "none"
                  /\ {n \in DOMAIN store : n.kind = "complete" /\ store[n] = run[b].content}
                        = {complete}
                  /\ run[b].pending \notin DOMAIN store
                  /\ LoggedOp(run[b], "delete") /\ ~LoggedOp(run[b], "move")
                  /\ run[a].digests["sha256"] = run[b].digests["sha256"]

SelfOverwrite(m) ==
    /\ BaseProvider_shares_storage_root(m)
    /\ materialized_path(m.src_path) = materialized_path(m.dest_path)

\* The osfstorage move/copy has gone past its self-overwrite guard.
PastCheck(m) ==
    /\ m.dest_name = "osfstorage"
    /\ \/ m.pc \in {"intra", "folder", "download", "commit", "relocate", "done"}
       \/ m.pc = "raised" /\ m.raised \notin {"NamingConflict", "OverwriteSelfError"}

\* The request is a look-up of naming resolution.
NamingLookup(q) == q.to = "metadata" /\ q.op = "GET" /\ q.what \in {"children", "item"}

\* C20 as stated: moving or copying a path onto itself raises
\* OverwriteSelfError before any backend or metadata-service call is made,
\* and the operation is never treated as a no-op.
C20_SelfOverwriteBeforeAnyCall ==
    /\ mv.raised = "OverwriteSelfError" => mv.log = <<>>
    /\ PastCheck(mv) => ~SelfOverwrite(mv)

\* C20 amended: moving or copying a path onto itself raises
\* OverwriteSelfError before any storage-backend call and before any delete,
\* relocation or download request to the metadata service; only the
\* look-ups of naming resolution precede it, and none when handle_naming is
\* off.  The operation never goes on past the guard.
C20_SelfOverwriteBeforeAnyChange ==
    /\ mv.raised = "OverwriteSelfError"
         => /\ \A i \in 1..Len(mv.log) : NamingLookup(mv.log[i])
            /\ ~mv.handle_naming => mv.log = <<>>
            /\ SelfOverwrite(mv)
    /\ PastCheck(mv) => ~SelfOverwrite(mv)

C20_Witness ==
    /\ mv.raised = "OverwriteSelfError"
    /\ mv.handle_naming
    /\ Len(mv.log) = 2

\* The requests the move or copy has made since naming resolution ended.
AfterNaming(m) == SubSeq(m.log, m.named + 1, Len(m.log))

\* Both providers are osfstorage and report the same storage region.
SameRegion(m) == m.dest_name = "osfstorage" /\ m.same_region

\* The request is the POST to hooks/<action> that relocates the entry.
IsRelocation(q) == q = Request("metadata", "POST", "hooks")

\* The request goes to the storage backend or fetches the source's bytes.
MovesBytes(q) == q.to = "storage" \/ q.what = "download"

\* The requests of _do_intra_move_or_copy for this move, in order.
IntraRequests(m) ==
    (IF m.dest_path.identifier # NoId THEN <<Request("metadata", "DELETE", "item")>> ELSE <<>>)
    \o <<Request("metadata", "POST", "hooks")>>
    \o (IF m.src_path.is_dir
        THEN <<Request("metadata", "GET", "validate"), Request("metadata", "GET", "children")>>
        ELSE <<>>)

CrossRegionFile(m) ==
    m.dest_name = "osfstorage" /\ ~m.same_region /\ ~m.src_path.is_dir

\* The first position of step in the steps taken, 0 when it was not taken.
StepAt(m, step) ==
    IF \E i \in 1..Len(m.steps) : m.steps[i] = step
    THEN CHOOSE i \in 1..Len(m.steps) :
            m.steps[i] = step /\ \A j \in 1..(i - 1) : m.steps[j] # step
    ELSE 0

C23_OtherDestinationDelegates ==
    (mv.dest_name # "osfstorage" /\ mv.pc # "called")
        => /\ mv.pc = "done"
           /\ mv.steps = <<"called">>
           /\ mv.log = <<Request("generic", mv.action, "super")>>
           /\ mv.raised = "none"
           /\ mv.download_stream = None
           /\ store = EmptyStore

C23_Witness ==
    /\ mv.dest_name # "osfstorage"
    /\ mv.pc = "done"
    /\ mv.handle_naming
    /\ mv.dest_path.is_dir
    /\ mv.dest_children # {}

\* The operations the run has asked of the backend and of the metadata
\* service, in order.
RECURSIVE Ops(_)
Ops(log) == IF log = <<>> THEN <<>> ELSE <<Head(log).op>> \o Ops(Tail(log))

\* The run has begun: it has its tee and its pending name.
Begun(u) == u.pc # "idle"

\* C24: in every interleaving of the uploads, each run uploads to, moves
\* from and deletes only its own pending name, the pending names of two
\* runs differ, and a pending object in the store is the one of the run
\* that uploaded it.
C24_PendingPathsNeverShared ==
    /\ \A r \in Runs :
          \A i \in 1..Len(run[r].log) :
              run[r].log[i].op \in {"upload", "move", "delete"}
                  => run[r].log[i].path = run[r].pending
    /\ \A a, b \in Runs :
          (a # b /\ Begun(run[a]) /\ Begun(run[b])) => run[a].pending # run[b].pending
    /\ \A n \in DOMAIN store :
          n.kind = "pending"
              => Cardinality({r \in Runs : Begun(run[r]) /\ run[r].pending = n
                                              /\ LoggedOp(run[r], "upload")}) = 1

C24_Witness ==
    \E a, b \in Runs :
        /\ a # b
        /\ b \notin run[a].after /\ a \notin run[b].after
        /\ LoggedOp(run[a], "upload") /\ LoggedOp(run[b], "upload")
        /\ run[a].pending \in DOMAIN store
        /\ run[b].pending \in DOMAIN store

LookupFailed(u) ==
    /\ u.pc = "raised"
    /\ u.raised_at = 2
    /\ u.log[2].op = "metadata"

PendingUploadFailed(u) == u.raised # "none" /\ u.raised_at = 1

\* C30: if the backend upload to the pending path fails, upload() fails with
\* it: no existence lookup, no move, no delete and no report to the metadata
\* service follows, no digest set and no content-addressed path is
\* produced, and of this upload only the pending object can remain in the
\* store.
C30_PendingUploadFailureIsFatal ==
    \A r \in Runs :
        PendingUploadFailed(run[r])
            => /\ run[r].pc = "raised"
               /\ Ops(run[r].log) = <<"upload">>
               /\ run[r].complete = None
               /\ run[r].metadata = None
               /\ run[r].digests = None
               /\ \A n \in DOMAIN store :
                     n.kind = "complete"
                         => \E q \in Runs : q # r /\ run[q].complete = n
                                              /\ LoggedOp(run[q], "move")

C30_Witness ==
    \E r \in Runs :
        /\ PendingUploadFailed(run[r])
        /\ run[r].raised = "UploadError"
        /\ run[r].content # <<>>
        /\ run[r].pending \in DOMAIN store

\* Everything read(-1) after read(-1) gets out of a stream.
Drain(s) == Backend_drain(s, <<>>, MaxDrain).data

\* The bytes a field's value stands for.
FieldBytes(value) == IF IsStream(value) THEN LogicalContent(value) ELSE value.text

\* "k1":"v1","k2":"v2" for the fields of data, in insertion order.
RECURSIVE JsonFields(_)
JsonFields(data) ==
    IF data = <<>> THEN <<>>
    ELSE <<34>> \o Head(data).key \o <<34, 58, 34>> \o FieldBytes(Head(data).value) \o <<34>>
         \o (IF Len(data) > 1 THEN <<44>> ELSE <<>>)
         \o JsonFields(Tail(data))

\* C25: reading FormDataStream.headers, or the first read, finalizes the
\* builder; every add_field or add_file after that fails as a usage error
\* (the assertion on can_add_more) and leaves the assembled stream as it was.
C25_FinalizedBuilderRejectsAdds ==
    \A i \in 1..Len(builder.log) :
        LET c == builder.log[i]
        IN /\ c.op \in {"headers", "read"} => ~c.after.can_add_more
           /\ (c.op \in {"add_field", "add_file"} /\ ~c.before.can_add_more)
                 => c.outcome = "AssertionError" /\ c.after = c.before

\* C26: the form builder's headers carry a Content-Length, and its value is
\* the number of bytes that draining the finalized multipart stream yields.
C26_ContentLengthIsDrainedLength ==
    \A i \in 1..Len(builder.log) :
        LET c == builder.log[i]
        IN /\ c.op = "headers"
                 => /\ c.outcome = "return"
                    /\ "Content-Length" \in DOMAIN c.value
                    /\ c.value["Content-Length"] = str(Len(Drain(c.after.multi)))
           /\ c.op = "make_formdata_multistream"
                 => /\ c.outcome = "return"
                    /\ "Content-Length" \in DOMAIN make_formdata_multistream_make_headers(Boundary)
                    /\ make_formdata_multistream_make_headers(Boundary)["Content-Length"]
                           = str(Len(Drain(c.value)))

\* C27: for a dict of n >= 1 fields with str or stream values, the JSON
\* builder returns a stream whose drained output is {"k1":"v1",...,"kn":"vn"}:
\* the fields in insertion order, a comma between consecutive fields only,
\* each stream's bytes unmodified between the quotes of its value.
C27_JsonBuilderDrainsToObjectLiteral ==
    \A i \in 1..Len(builder.log) :
        LET c == builder.log[i]
        IN (/\ c.op = "make_multistream_from_json"
            /\ Len(builder.data) >= 1
            /\ \A j \in 1..Len(builder.data) :
                  IsStream(builder.data[j].value) \/ builder.data[j].value.kind = "str")
              => /\ c.outcome = "return"
                 /\ Drain(c.value) = <<123>> \o JsonFields(builder.data) \o <<125>>

\* The run's commit has ended well: upload() has its metadata and digests.
Committed(u) == u.pc \in {"zeta", "report", "done"}

Invocations(u, op) == Cardinality({i \in 1..Len(u.log) : u.log[i].op = op})

\* C32: the commit protocol never retries: within one upload the pending
\* upload, the existence lookup, the move, the delete and the report to the
\* metadata service are each invoked at most once, whether they succeed or
\* fail, and a failed operation ends the upload.
C32_CommitNeverRetries ==
    \A r \in Runs :
        /\ \A op \in {"upload", "metadata", "move", "delete", "report"} :
              Invocations(run[r], op) <= 1
        /\ run[r].raised # "none" => Finished(run[r])

C32_Witness ==
    \E r \in Runs :
        /\ run[r].pc = "raised"
        /\ run[r].faulted
        /\ run[r].raised = "UploadError"
        /\ Invocations(run[r], "upload") = 1

\* Neither run had ended when the other began.
Concurrent(a, b) == a \notin run[b].after /\ b \notin run[a].after

C34_MultiReadTerminates ==
    (last.op = "read" /\ last.pre.kind = "Multi")
        => /\ last.outcome # "hang"
           /\ (last.outcome = "return" /\ last.n >= 0) => Len(last.chunk) <= last.n

\* C35: every CutoffStream.read(n), n >= 0, terminates by returning the
\* bytes it has collected, fewer than n when the wrapped stream runs out or
\* the cutoff is met: it neither loops on empty sub-reads nor fails.
C35_CutoffReadTerminates ==
    (last.op = "read" /\ last.pre.kind = "Cutoff" /\ last.n >= 0)
        => /\ last.outcome = "return"
           /\ Len(last.chunk) <= last.n

\* The most one read can encode: the encoded size of the largest read.
CarryBound == Base64EncodeStream_calculate_encoded_size(MaxRead)

\* C36: after any sequence of Base64EncodeStream.read(n) calls with n >= 1
\* the carry buffer (extra) holds no more than one read's remainder: its
\* length does not grow with the number of reads made.
C36_Base64CarryIsBounded ==
    (stream.kind = "Base64" /\ \A i \in 1..Len(asked) : asked[i] >= 1)
        => Len(stream.extra) <= CarryBound

\* C37: Base64EncodeStream.at_eof() is true exactly when the wrapped stream
\* is at its end and the carry buffer is empty, before and after every
\* call; while it is true nothing encoded is held back, so what has been
\* delivered is whole encoded blocks.
C37_Base64EofOnlyWhenCarryEmpty ==
    /\ stream.kind = "Base64"
          => /\ AtEof(stream) <=> (AtEof(stream.stream) /\ stream.extra = <<>>)
             /\ (AtEof(stream) /\ \A i \in 1..Len(asked) : asked[i] >= 0)
                   => Len(delivered) % 4 = 0
    /\ last.pre.kind = "Base64"
          => (AtEof(last.pre) <=> (AtEof(last.pre.stream) /\ last.pre.extra = <<>>))

C37_Witness ==
    /\ last.op = "read"
    /\ last.outcome = "return"
    /\ last.pre.kind = "Base64"
    /\ AtEof(last.pre.stream)
    /\ last.pre.extra # <<>>
    /\ ~AtEof(last.pre)
    /\ last.chunk = last.pre.extra
    /\ AtEof(stream)


\* The streams a FormDataStream still holds, in the order they will be read.
Parts(f) ==
    (IF f.multi.current_readable.kind = "None" THEN <<>> ELSE <<f.multi.current_readable>>)
    \o f.multi.readables

\* How many of them are the closing boundary line.
Closings(f) ==
    Cardinality({i \in 1..Len(Parts(f)) : Parts(f)[i] = FormDataStream_end_boundary(f)})

\* A field has been handed to the builder before its call number i.
FieldGiven(b, i) == \E j \in 1..(i - 1) : b.log[j].op \in {"add_field", "add_file"}

\* C38: finalizing a FormDataStream is idempotent: after any access to
\* headers, call of finalize or read on a builder that was given a field,
\* the builder is finalized and holds the closing boundary line once, and
\* until something is read that line is its last stream.
C38_FinalizeIsIdempotent ==
    \A i \in 1..Len(builder.log) :
        LET call == builder.log[i]
        IN (call.op \in {"headers", "finalize", "read"} /\ FieldGiven(builder, i))
              => /\ call.op # "read" => call.outcome = "return"
                 /\ ~call.after.can_add_more
                 /\ Closings(call.after) <= 1
                 /\ (\A j \in 1..i : builder.log[j].op # "read")
                       => /\ Closings(call.after) = 1
                          /\ Parts(call.after)[Len(Parts(call.after))]
                                = FormDataStream_end_boundary(call.after)


\* _do_intra_move_or_copy has been entered.
IntraRan(m) == \E i \in 1..Len(m.steps) : m.steps[i] \in {"intra", "relocate"}

\* Something was at the destination path: it has an identifier.
Had(m) == m.dest_path.identifier # NoId

\* C39: in an intra move or copy, a destination that has an identifier is
\* deleted before the relocation request is sent (the DELETE is the request
\* just before the POST, and there is no POST without it), a destination
\* without identifier is not deleted, and the created flag returned is true
\* exactly when the destination had no identifier, for files and folders.
C39_IntraDeletesThenRelocates ==
    IntraRan(mv)
        => /\ \A i \in 1..Len(mv.log) :
                 IsRelocation(mv.log[i])
                     => IF Had(mv)
                        THEN /\ i - 1 > mv.named
                             /\ mv.log[i - 1] = Request("metadata", "DELETE", "item")
                        ELSE \A j \in 1..Len(mv.log) : mv.log[j].op # "DELETE"
           /\ \A i \in 1..Len(mv.log) :
                 mv.log[i].op = "DELETE"
                     => \/ mv.pc = "raised"
                        \/ i < Len(mv.log) /\ IsRelocation(mv.log[i + 1])
           /\ mv.pc = "done" => (mv.created <=> ~Had(mv))

C39_Witness ==
    /\ IntraRan(mv)
    /\ mv.pc = "done"
    /\ Had(mv)
    /\ mv.src_path.is_dir
    /\ ~mv.created
    /\ \E i \in 2..Len(mv.log) :
          /\ IsRelocation(mv.log[i])
          /\ mv.log[i - 1] = Request("metadata", "DELETE", "item")

====
